---- MODULE Spec2Model ----
(***************************************************************************)
(* Model of tweepy_twitter_api.py: the function tweet_scraper, which pages *)
(* through search results and flattens every status into 23 column lists,  *)
(* followed by the script's call of it and the save of the table.          *)
(*                                                                         *)
(* Python objects are records: an attribute or key that is absent is a     *)
(* field that is not in the record's domain, so that an attribute access   *)
(* which raises AttributeError / KeyError is a failed membership test.     *)
(* Python values that end up in a cell carry their type, so that np.nan, a *)
(* list and a scalar are three different values.                           *)
(***************************************************************************)
EXTENDS FiniteSets, Integers, Sequences, TLC

VARIABLES
    pc,          \* "call" | "loop" | "raised" | "returned" | "saved"
    lang,        \* the lang argument of tweet_scraper
    tweet_limit, \* the tweet_limit argument of tweet_scraper
    available,   \* how many statuses the search can yield for the request
    request,     \* the keyword arguments handed to tweepy.Cursor
    yielded,     \* the statuses the cursor has yielded so far, in order
    data,        \* the dictionary of 23 column lists
    df,          \* the value bound to df by the script
    written      \* whether df.to_json has written the output file

vars == <<pc, lang, tweet_limit, available, request, yielded, data, df, written>>

(***************************************************************************)
(* Bounds of the model.                                                    *)
(***************************************************************************)
MaxLimit == 2

(***************************************************************************)
(* Python values.                                                          *)
(***************************************************************************)
PyStr(s) == [type |-> "str", v |-> s]
PyInt(s) == [type |-> "int", v |-> s]
PyBool(b) == [type |-> "bool", v |-> IF b THEN "True" ELSE "False"]
PyList(items) == [type |-> "list", items |-> items]
None == [type |-> "NoneType", v |-> "None"]
NaN == [type |-> "float", v |-> "nan"]

Has(obj, key) == key \in DOMAIN obj

\* obj without the attribute reached by path (a sequence of attribute names)
RECURSIVE Without(_, _)
Without(obj, path) ==
    IF Len(path) = 1
    THEN [k \in DOMAIN obj \ {path[1]} |-> obj[k]]
    ELSE [k \in DOMAIN obj |->
            IF k = path[1] THEN Without(obj[k], Tail(path)) ELSE obj[k]]

\* the value reached by path; defined only when Reaches(obj, path)
RECURSIVE Get(_, _)
Get(obj, path) ==
    IF Len(path) = 0 THEN obj ELSE Get(obj[path[1]], Tail(path))

RECURSIVE Reaches(_, _)
Reaches(obj, path) ==
    \/ Len(path) = 0
    \/ /\ Has(obj, path[1])
       /\ Reaches(obj[path[1]], Tail(path))

(***************************************************************************)
(* The statuses the search can yield.  A status is what tweepy parses from *)
(* the JSON of a tweet: one attribute per key of the JSON, so a key is in  *)
(* tweet._json exactly when the attribute exists.                          *)
(***************************************************************************)
Authors == <<
    [id |-> PyInt("11"), screen_name |-> PyStr("alice"),
     name |-> PyStr("Alice A"), verified |-> PyBool(FALSE)],
    [id |-> PyInt("22"), screen_name |-> PyStr("bob"),
     name |-> PyStr("Bob B"), verified |-> PyBool(TRUE)] >>

Originals == <<
    [id |-> PyInt("555"),
     user |-> [id |-> PyInt("9"), screen_name |-> PyStr("orig_user"),
               name |-> PyStr("Orig User")],
     created_at |-> PyStr("2020-03-01"), full_text |-> PyStr("stay home"),
     retweet_count |-> PyInt("70"), favorite_count |-> PyInt("80")],
    [id |-> PyInt("666"),
     user |-> [id |-> PyInt("8"), screen_name |-> PyStr("other_user"),
               name |-> PyStr("Other User")],
     created_at |-> PyStr("2020-03-02"), full_text |-> PyStr("wash hands"),
     retweet_count |-> PyInt("71"), favorite_count |-> PyInt("81")] >>

\* a status without entities and without retweeted_status
Plain(b) ==
    IF b = 1
    THEN [user |-> Authors[1], id |-> PyInt("101"),
          created_at |-> PyStr("2020-04-01"), full_text |-> PyStr("hello"),
          retweet_count |-> PyInt("3"), favorite_count |-> PyInt("4"),
          in_reply_to_user_id |-> None, in_reply_to_screen_name |-> None,
          is_quote_status |-> PyBool(FALSE)]
    ELSE [user |-> Authors[2], id |-> PyInt("202"),
          created_at |-> PyStr("2020-04-02"), full_text |-> PyStr("world"),
          retweet_count |-> PyInt("5"), favorite_count |-> PyInt("6"),
          in_reply_to_user_id |-> PyInt("11"),
          in_reply_to_screen_name |-> PyStr("alice"),
          is_quote_status |-> PyBool(TRUE)]

\* entries of entities["hashtags"]; the last one has no "text" key
Tag1 == [text |-> PyStr("covid19"), indices |-> PyStr("0-8")]
Tag2 == [text |-> PyStr("coronavirus"), indices |-> PyStr("9-21")]
BadTag == [indices |-> PyStr("0-1")]
\* entries of entities["user_mentions"]; the last one has no "screen_name" key
Mention1 == [screen_name |-> PyStr("alice"), id |-> PyInt("11")]
Mention2 == [screen_name |-> PyStr("bob"), id |-> PyInt("22")]
BadMention == [id |-> PyInt("33")]

\* the values of tweet.entities; the last two lack one of the two keys
EntitiesChoices ==
    {[hashtags |-> <<>>, user_mentions |-> <<Mention1, Mention2>>],
     [hashtags |-> <<Tag1, Tag2>>, user_mentions |-> <<Mention1, BadMention>>],
     [hashtags |-> <<Tag1, BadTag, Tag2>>, user_mentions |-> <<BadMention>>],
     [hashtags |-> <<BadTag, Tag1>>],
     [user_mentions |-> <<>>]}

WithAttr(obj, key, val) ==
    [k \in DOMAIN obj \cup {key} |-> IF k = key THEN val ELSE obj[k]]

\* statuses that have every attribute the loop body reads unguarded
WholeStatuses ==
    LET ents(b) == {Plain(b)} \cup {WithAttr(Plain(b), "entities", e) :
                                        e \in EntitiesChoices}
    IN  UNION {ents(b) \cup {WithAttr(p, "retweeted_status", Originals[b]) :
                                 p \in ents(b)} : b \in {1, 2}}

\* the attributes lines 79-96 and 125-129 read, and those lines 136-150 read
CorePaths ==
    {<<"user">>, <<"user", "id">>, <<"user", "screen_name">>, <<"user", "name">>,
     <<"user", "verified">>, <<"id">>, <<"created_at">>, <<"full_text">>,
     <<"retweet_count">>, <<"favorite_count">>, <<"in_reply_to_user_id">>,
     <<"in_reply_to_screen_name">>, <<"is_quote_status">>}
OriginalPaths ==
    {<<"retweeted_status">> \o p :
        p \in {<<"id">>, <<"user">>, <<"user", "id">>, <<"user", "screen_name">>,
               <<"user", "name">>, <<"created_at">>, <<"full_text">>,
               <<"retweet_count">>, <<"favorite_count">>}}

\* statuses that lack one attribute the loop body reads unguarded
BrokenStatuses ==
    LET quiet == Plain(1)
        loud == WithAttr(WithAttr(Plain(2), "entities",
                                  [hashtags |-> <<Tag1, Tag2>>,
                                   user_mentions |-> <<Mention1, BadMention>>]),
                         "retweeted_status", Originals[2])
    IN  {Without(t, p) : t \in {quiet, loud}, p \in CorePaths}
        \cup {Without(loud, p) : p \in OriginalPaths}

Statuses == WholeStatuses \cup BrokenStatuses

(***************************************************************************)
(* The loop body, lines 78-160: one append per column, in this order,      *)
(* which is also the order of the keys of data.                            *)
(***************************************************************************)
Columns == <<
    "user_id", "screen_name", "name", "verified", "id", "created_at",
    "full_text", "retweet_count", "favorite_count", "hashtags", "user_mentions",
    "in_reply_to_user_id", "in_reply_to_screen_name", "is_quote_status",
    "is_retweet", "retweet_og_id", "retweet_og_author_id",
    "retweet_og_author_screen_name", "retweet_og_author_name", "retweet_og_date",
    "retweet_og_full_text", "retweet_og_retweet_count",
    "retweet_og_favorite_count" >>

ColumnSet == {Columns[k] : k \in DOMAIN Columns}

\* the attribute each plain append reads (lines 79-96, 125-129)
AttrOf ==
    [user_id |-> <<"user", "id">>,
     screen_name |-> <<"user", "screen_name">>,
     name |-> <<"user", "name">>,
     verified |-> <<"user", "verified">>,
     id |-> <<"id">>,
     created_at |-> <<"created_at">>,
     full_text |-> <<"full_text">>,
     retweet_count |-> <<"retweet_count">>,
     favorite_count |-> <<"favorite_count">>,
     in_reply_to_user_id |-> <<"in_reply_to_user_id">>,
     in_reply_to_screen_name |-> <<"in_reply_to_screen_name">>,
     is_quote_status |-> <<"is_quote_status">>]

OgAttrOfSwapped ==
    [retweet_og_id |-> <<"id">>,
     retweet_og_author_id |-> <<"user", "id">>,
     retweet_og_author_screen_name |-> <<"user", "name">>,
     retweet_og_author_name |-> <<"user", "screen_name">>,
     retweet_og_date |-> <<"created_at">>,
     retweet_og_full_text |-> <<"full_text">>,
     retweet_og_retweet_count |-> <<"retweet_count">>,
     retweet_og_favorite_count |-> <<"favorite_count">>]

\* the attribute of tweet.retweeted_status each append of lines 136-150 reads
OgAttrOf ==
    [retweet_og_id |-> <<"id">>,
     retweet_og_author_id |-> <<"user", "id">>,
     retweet_og_author_screen_name |-> <<"user", "screen_name">>,
     retweet_og_author_name |-> <<"user", "name">>,
     retweet_og_date |-> <<"created_at">>,
     retweet_og_full_text |-> <<"full_text">>,
     retweet_og_retweet_count |-> <<"retweet_count">>,
     retweet_og_favorite_count |-> <<"favorite_count">>]

ScalarColumns == DOMAIN AttrOf
OgColumns == DOMAIN OgAttrOf

\* the for loop inside a try block (lines 101-102, 114-115): entries are read
\* in order into acc until one has no key; what was appended before stays
RECURSIVE ReadEntries(_, _, _)
ReadEntries(entries, key, acc) ==
    IF entries = <<>> THEN acc
    ELSE IF ~Has(Head(entries), key) THEN acc
    ELSE ReadEntries(Tail(entries), key, Append(acc, Head(entries)[key]))

\* the try/except of lines 99-104 and 112-117: the list left in the local
\* variable, whether or not an exception was swallowed
TryCollect(tweet, kind, key) ==
    IF ~Has(tweet, "entities") THEN <<>>
    ELSE IF ~Has(tweet.entities, kind) THEN <<>>
    ELSE ReadEntries(tweet.entities[kind], key, <<>>)

ListCellKeepEmpty(collected) == PyList(collected)

\* lines 106-109 and 119-122
ListCell(collected) ==
    IF Len(collected) = 0 THEN NaN ELSE PyList(collected)

\* line 132: "retweeted_status" in tweet._json.keys()
IsRetweet(tweet) == Has(tweet, "retweeted_status")

\* whether the append to column col raises for this status
Raises(tweet, col) ==
    IF col \in ScalarColumns THEN ~Reaches(tweet, AttrOf[col])
    ELSE IF col \in OgColumns
    THEN IsRetweet(tweet) /\ ~Reaches(tweet.retweeted_status, OgAttrOf[col])
    ELSE FALSE

\* lines 134 and 152: the flag appended to is_retweet
FlagCell(tweet) == PyBool(IsRetweet(tweet))

OgCellNone(tweet, col) ==
    IF IsRetweet(tweet) THEN Get(tweet.retweeted_status, OgAttrOf[col]) ELSE None

\* lines 136-150 and 153-160: the value appended to a retweet_og_* column
OgCell(tweet, col) ==
    IF IsRetweet(tweet) THEN Get(tweet.retweeted_status, OgAttrOf[col]) ELSE NaN

\* the value the append to column col appends, when it does not raise
Cell(tweet, col) ==
    IF col \in ScalarColumns THEN Get(tweet, AttrOf[col])
    ELSE IF col = "hashtags" THEN ListCell(TryCollect(tweet, "hashtags", "text"))
    ELSE IF col = "user_mentions"
    THEN ListCell(TryCollect(tweet, "user_mentions", "screen_name"))
    ELSE IF col = "is_retweet" THEN FlagCell(tweet)
    ELSE OgCell(tweet, col)

ListAppendFront(list, val) == <<val>> \o list

ListAppendOverLast(list, val) ==
    IF list = <<>> THEN <<val>> ELSE [list EXCEPT ![Len(list)] = val]

\* list.append
ListAppend(list, val) == Append(list, val)

\* a loop body that skips an append which raises and goes on with the next
RECURSIVE LoopBodySkip(_, _, _)
LoopBodySkip(d, tweet, k) ==
    IF k > Len(Columns) THEN [data |-> d, raised |-> FALSE]
    ELSE IF Raises(tweet, Columns[k]) THEN LoopBodySkip(d, tweet, k + 1)
    ELSE LoopBodySkip([d EXCEPT ![Columns[k]] = Append(@, Cell(tweet, Columns[k]))],
                      tweet, k + 1)

\* a loop body that swallows the exception and leaves the record half-appended
RECURSIVE LoopBodySwallow(_, _, _)
LoopBodySwallow(d, tweet, k) ==
    IF k > Len(Columns) THEN [data |-> d, raised |-> FALSE]
    ELSE IF Raises(tweet, Columns[k]) THEN [data |-> d, raised |-> FALSE]
    ELSE LoopBodySwallow([d EXCEPT ![Columns[k]] = Append(@, Cell(tweet, Columns[k]))],
                         tweet, k + 1)

\* the appends of the loop body from the k-th on: the dictionary they leave
\* and whether one of them raised
RECURSIVE LoopBody(_, _, _)
LoopBody(d, tweet, k) ==
    IF k > Len(Columns) THEN [data |-> d, raised |-> FALSE]
    ELSE IF Raises(tweet, Columns[k]) THEN [data |-> d, raised |-> TRUE]
    ELSE LoopBody([d EXCEPT ![Columns[k]] = ListAppend(@, Cell(tweet, Columns[k]))],
                  tweet, k + 1)

\* pd.DataFrame(data), line 163: one column per key, one row per list index
DataFrame(d) ==
    [columns |-> Columns,
     rows |-> [i \in 1..Len(d[Columns[1]]) |-> [c \in DOMAIN d |-> d[c][i]]]]

NoTable == [columns |-> <<>>]
NoRequest == [issued |-> "nothing"]
Queries == {"#covid19 OR #covid"}
Langs == {"en", "es"}

(***************************************************************************)
(* The state machine.                                                      *)
(***************************************************************************)
\* lines 27-32, 35, 48-72: the arguments are bound and data is the empty dictionary
Init ==
    /\ pc = "call"
    /\ lang \in Langs
    /\ tweet_limit \in 0..MaxLimit
    /\ available \in 0..(MaxLimit + 1)
    /\ request = NoRequest
    /\ yielded = <<>>
    /\ data = [c \in ColumnSet |-> <<>>]
    /\ df = NoTable
    /\ written = FALSE

\* line 77: the arguments handed to tweepy.Cursor
CursorArgs(query, language, tweet_mode, count) ==
    [q |-> query, tweet_mode |-> tweet_mode, count |-> count]

\* line 77, once: tweepy.Cursor(api.search_tweets, ...).items(tweet_limit)
Search ==
    /\ pc = "call"
    /\ \E query \in Queries :
        request' = CursorArgs(query, lang, "extended", 100)
    /\ pc' = "loop"
    /\ UNCHANGED <<lang, tweet_limit, available, yielded, data, df, written>>

HasNextOneMore == Len(yielded) <= tweet_limit /\ Len(yielded) < available

\* whether items(tweet_limit) has another status to yield
HasNext == Len(yielded) < tweet_limit /\ Len(yielded) < available

\* lines 77-160: the cursor yields a status and the loop body runs on it
Iterate ==
    /\ pc = "loop"
    /\ HasNext
    /\ \E tweet \in Statuses :
        LET out == LoopBody(data, tweet, 1)
        IN  /\ yielded' = Append(yielded, tweet)
            /\ data' = out.data
            /\ pc' = IF out.raised THEN "raised" ELSE "loop"
    /\ UNCHANGED <<lang, tweet_limit, available, request, df, written>>

\* line 77: the request for a page fails and the exception leaves the loop
SearchFails ==
    /\ pc = "loop"
    /\ Len(yielded) < tweet_limit
    /\ pc' = "raised"
    /\ UNCHANGED <<lang, tweet_limit, available, request, yielded, data, df, written>>

\* lines 77, 163-165, 169: the iterator stops, the table is built and returned
Return ==
    /\ pc = "loop"
    /\ ~HasNext
    /\ df' = DataFrame(data)
    /\ pc' = "returned"
    /\ UNCHANGED <<lang, tweet_limit, available, request, yielded, data, written>>

\* line 172: df.to_json.  (As written, line 172 and line 28 have a misplaced
\* quote; the statements are modelled as they are evidently meant.)
Save ==
    /\ pc = "returned"
    /\ written' = TRUE
    /\ pc' = "saved"
    /\ UNCHANGED <<lang, tweet_limit, available, request, yielded, data, df>>

Next == Search \/ Iterate \/ SearchFails \/ Return \/ Save

Spec == Init /\ [][Next]_vars

\* the program has one thread and no blocking step in the model: a step that
\* can be taken is taken
FairSpec == Spec /\ WF_vars(Next)

(***************************************************************************)
(* Properties.  Row i of a column is the cell the loop body appended for   *)
(* yielded[i]; a record whose flattening raised has cells only in the      *)
(* columns appended before the raise.                                      *)
(***************************************************************************)
Min(a, b) == IF a < b THEN a ELSE b

PyTrue == [type |-> "bool", v |-> "True"]
PyFalse == [type |-> "bool", v |-> "False"]

OgFields ==
    {"retweet_og_id", "retweet_og_author_id", "retweet_og_author_screen_name",
     "retweet_og_author_name", "retweet_og_date", "retweet_og_full_text",
     "retweet_og_retweet_count", "retweet_og_favorite_count"}

AllFields ==
    {"user_id", "screen_name", "name", "verified", "id", "created_at", "full_text",
     "retweet_count", "favorite_count", "hashtags", "user_mentions",
     "in_reply_to_user_id", "in_reply_to_screen_name", "is_quote_status",
     "is_retweet"} \cup OgFields

HasCell(c, i) == i \in 1..Len(data[c])

\* rows with a cell in every column
CompleteRows == {i \in 1..Len(yielded) : \A c \in AllFields : HasCell(c, i)}

\* what the original-post field c of a repost t is expected to hold
OriginalValue(t, c) ==
    LET og == t.retweeted_status
    IN  CASE c = "retweet_og_id" -> og.id
          [] c = "retweet_og_author_id" -> og.user.id
          [] c = "retweet_og_author_screen_name" -> og.user.screen_name
          [] c = "retweet_og_author_name" -> og.user.name
          [] c = "retweet_og_date" -> og.created_at
          [] c = "retweet_og_full_text" -> og.full_text
          [] c = "retweet_og_retweet_count" -> og.retweet_count
          [] c = "retweet_og_favorite_count" -> og.favorite_count

\* C1: a post without retweeted_status gets is_retweet = False and np.nan in
\* all eight retweet_og_* fields
C1_NotRetweetRow ==
    \A i \in 1..Len(yielded) :
        ~("retweeted_status" \in DOMAIN yielded[i]) =>
            /\ HasCell("is_retweet", i) => data.is_retweet[i] = PyFalse
            /\ \A c \in OgFields : HasCell(c, i) => data[c][i] = NaN

C1_Witness ==
    \E i \in CompleteRows : ~("retweeted_status" \in DOMAIN yielded[i])

\* C2: a post with retweeted_status gets is_retweet = True and each of the
\* eight retweet_og_* fields holds the value of the sub-record, unchanged
C2_RetweetRow ==
    \A i \in 1..Len(yielded) :
        "retweeted_status" \in DOMAIN yielded[i] =>
            /\ HasCell("is_retweet", i) => data.is_retweet[i] = PyTrue
            /\ \A c \in OgFields :
                HasCell(c, i) => data[c][i] = OriginalValue(yielded[i], c)

C2_Witness ==
    \E i \in CompleteRows :
        /\ "retweeted_status" \in DOMAIN yielded[i]
        /\ data.retweet_og_id[i] = PyInt("555")
        /\ data.retweet_og_author_id[i] = PyInt("9")
        /\ data.retweet_og_author_screen_name[i] = PyStr("orig_user")

\* reading the annotation list kind of post t fails: entities or the list is
\* missing, or some entry of the list has no key
ReadFails(t, kind, key) ==
    \/ ~("entities" \in DOMAIN t)
    \/ ~(kind \in DOMAIN t.entities)
    \/ \E j \in 1..Len(t.entities[kind]) : ~(key \in DOMAIN t.entities[kind][j])

\* C3: whenever reading the tag list fails, the hashtags field is np.nan and
\* the failure raises nothing; the same for the mention list and user_mentions
C3_FailedReadIsEmptyMarker ==
    \A i \in 1..Len(yielded) :
        /\ (ReadFails(yielded[i], "hashtags", "text") /\ HasCell("favorite_count", i)) =>
               HasCell("hashtags", i) /\ data.hashtags[i] = NaN
        /\ (ReadFails(yielded[i], "user_mentions", "screen_name")
              /\ HasCell("hashtags", i)) =>
               HasCell("user_mentions", i) /\ data.user_mentions[i] = NaN

\* the tag texts of post t, in the order of its annotation list, up to n
TagTexts(t, n) == [j \in 1..n |-> t.entities.hashtags[j].text]

\* C4: the hashtags field is np.nan or a non-empty list of the tag texts in
\* the order of the annotation list, never an empty list
C4_HashtagsNeverEmptyList ==
    \A i \in 1..Len(data.hashtags) :
        LET cell == data.hashtags[i]
        IN  IF cell = NaN THEN TRUE
            ELSE /\ cell.type = "list"
                 /\ Len(cell.items) > 0
                 /\ "entities" \in DOMAIN yielded[i]
                 /\ "hashtags" \in DOMAIN yielded[i].entities
                 /\ Len(cell.items) <= Len(yielded[i].entities.hashtags)
                 /\ cell.items = TagTexts(yielded[i], Len(cell.items))

C4_Witness ==
    /\ \E i \in CompleteRows :
        data.hashtags[i] = PyList(<<PyStr("covid19"), PyStr("coronavirus")>>)
    /\ \E i \in CompleteRows :
        /\ "entities" \in DOMAIN yielded[i]
        /\ "hashtags" \in DOMAIN yielded[i].entities
        /\ yielded[i].entities.hashtags = <<>>
        /\ data.hashtags[i] = NaN

\* the values of key in the entries of a list, up to the first entry without it
WellFormedPrefix(entries, key) ==
    LET full == {n \in 0..Len(entries) : \A j \in 1..n : key \in DOMAIN entries[j]}
        n == CHOOSE m \in full : \A o \in full : o <= m
    IN  [j \in 1..n |-> entries[j][key]]

ExpectedList(t, kind, key) ==
    IF ~("entities" \in DOMAIN t) THEN NaN
    ELSE IF ~(kind \in DOMAIN t.entities) THEN NaN
    ELSE IF WellFormedPrefix(t.entities[kind], key) = <<>> THEN NaN
    ELSE PyList(WellFormedPrefix(t.entities[kind], key))

\* the flattening of post t: what field c of its row is expected to hold
ExpectedCell(t, c) ==
    CASE c = "user_id" -> t.user.id
      [] c = "screen_name" -> t.user.screen_name
      [] c = "name" -> t.user.name
      [] c = "verified" -> t.user.verified
      [] c = "id" -> t.id
      [] c = "created_at" -> t.created_at
      [] c = "full_text" -> t.full_text
      [] c = "retweet_count" -> t.retweet_count
      [] c = "favorite_count" -> t.favorite_count
      [] c = "hashtags" -> ExpectedList(t, "hashtags", "text")
      [] c = "user_mentions" -> ExpectedList(t, "user_mentions", "screen_name")
      [] c = "in_reply_to_user_id" -> t.in_reply_to_user_id
      [] c = "in_reply_to_screen_name" -> t.in_reply_to_screen_name
      [] c = "is_quote_status" -> t.is_quote_status
      [] c = "is_retweet" ->
            IF "retweeted_status" \in DOMAIN t THEN PyTrue ELSE PyFalse
      [] c \in OgFields ->
            IF "retweeted_status" \in DOMAIN t THEN OriginalValue(t, c) ELSE NaN

\* C5: while no flattening has raised, the accumulator holds one row per post
\* consumed, and row i is the flattening of the i-th post the cursor yielded
C5_OneRowPerPostInOrder ==
    /\ DOMAIN data = AllFields
    /\ pc # "raised" => \A c \in AllFields : Len(data[c]) = Len(yielded)
    /\ \A c \in AllFields : \A i \in 1..Len(data[c]) :
        /\ i <= Len(yielded)
        /\ data[c][i] = ExpectedCell(yielded[i], c)

C5_Witness ==
    /\ pc = "loop"
    /\ Len(yielded) = 2
    /\ CompleteRows = {1, 2}
    /\ yielded[1] # yielded[2]
    /\ data.id[1] # data.id[2]

\* the eight original-post fields of row i are all np.nan and the flag is
\* False, or all are values of the sub-record and the flag is True
JointlyTied(i) ==
    \/ /\ data.is_retweet[i] = PyFalse
       /\ ~("retweeted_status" \in DOMAIN yielded[i])
       /\ \A c \in OgFields : data[c][i] = NaN
    \/ /\ data.is_retweet[i] = PyTrue
       /\ "retweeted_status" \in DOMAIN yielded[i]
       /\ \A c \in OgFields :
            data[c][i] # NaN /\ data[c][i] = OriginalValue(yielded[i], c)

\* C6 as stated: in every reachable state, the state left by an aborted
\* flattening included, all 23 column lists have the same length and the
\* original-post fields of every row are tied to is_retweet
C6_Original ==
    /\ \A c \in AllFields : Len(data[c]) = Len(data.user_id)
    /\ \A i \in 1..Len(data.is_retweet) : JointlyTied(i)

\* C6 amended: the 23 column lists have the same length in every state in
\* which no flattening has raised; after a raise the columns appended before
\* the failing one are one longer than the rest; every complete row is tied
C6_RowsWholeUnlessRaised ==
    /\ pc # "raised" => \A c \in AllFields : Len(data[c]) = Len(data.user_id)
    /\ \A k \in 1..(Len(Columns) - 1) :
        Len(data[Columns[k + 1]]) <= Len(data[Columns[k]])
    /\ Len(data[Columns[1]]) <= Len(data[Columns[Len(Columns)]]) + 1
    /\ \A i \in CompleteRows : JointlyTied(i)

C6_Witness ==
    /\ pc = "raised"
    /\ Len(data.user_id) = 2
    /\ Len(data.is_retweet) = 2
    /\ Len(data.retweet_og_id) = 2
    /\ Len(data.retweet_og_author_name) = 1
    /\ CompleteRows = {1}

\* post t lacks a required scalar field: an author or post scalar, or a
\* field of the original-post sub-record it has
LacksRequired(t) ==
    \/ ~("user" \in DOMAIN t)
    \/ \E f \in {"id", "screen_name", "name", "verified"} : ~(f \in DOMAIN t.user)
    \/ \E f \in {"id", "created_at", "full_text", "retweet_count", "favorite_count"} :
        ~(f \in DOMAIN t)
    \/ /\ "retweeted_status" \in DOMAIN t
       /\ LET og == t.retweeted_status
          IN  \/ \E f \in {"id", "created_at", "full_text", "retweet_count",
                           "favorite_count", "user"} : ~(f \in DOMAIN og)
              \/ \E f \in {"id", "screen_name", "name"} : ~(f \in DOMAIN og.user)

\* C7: once a post lacking a required field has been yielded, or the search
\* has failed, the run has raised: no table, no file, and no further step
C7_ErrorAbortsRun ==
    /\ [](\A i \in 1..Len(yielded) :
            LacksRequired(yielded[i]) => pc = "raised" /\ i = Len(yielded))
    /\ [](pc = "raised" => df = NoTable /\ written = FALSE)
    /\ [][pc # "raised"]_vars

C7_Witness ==
    /\ pc = "raised"
    /\ Len(yielded) = 2
    /\ LacksRequired(yielded[2])
    /\ CompleteRows = {1}

C7_WitnessSearchFails ==
    /\ pc = "raised"
    /\ Len(yielded) = 1
    /\ CompleteRows = {1}

\* the search request carries the caller's language
RequestCarriesLang ==
    /\ "lang" \in DOMAIN request
    /\ request.lang = lang

\* C8: the request issued to the search client carries the lang argument
C8_LangLimitsSearch == pc # "call" => RequestCarriesLang

\* C9: the run ends; when it ends without an error, exactly
\* min(tweet_limit, available) posts were consumed and the table has that
\* many rows and the 23 columns, also when tweet_limit = 0
C9_RunsToLimitOrExhaustion ==
    /\ <>(pc \in {"raised", "saved"})
    /\ [](pc \in {"returned", "saved"} =>
            /\ Len(yielded) = Min(tweet_limit, available)
            /\ Len(df.rows) = Min(tweet_limit, available)
            /\ Len(df.columns) = 23
            /\ {df.columns[k] : k \in 1..Len(df.columns)} = AllFields
            /\ \A i \in 1..Len(df.rows) : DOMAIN df.rows[i] = AllFields
            /\ tweet_limit = 0 => df.rows = <<>>)

C9_Witness ==
    /\ pc = "saved"
    /\ tweet_limit = 2
    /\ available = 1
    /\ Len(df.rows) = 1

C9_WitnessZero ==
    /\ pc = "saved"
    /\ tweet_limit = 0
    /\ available > 0
    /\ df.rows = <<>>
    /\ Len(df.columns) = 23

IsPrefix(s, t) ==
    /\ Len(s) <= Len(t)
    /\ \A i \in 1..Len(s) : s[i] = t[i]

\* C10: every step leaves each column list as it was or extends it by one
\* element at the end
C10_AppendOnly ==
    [][\A c \in AllFields :
        /\ IsPrefix(data[c], data'[c])
        /\ Len(data'[c]) <= Len(data[c]) + 1]_vars

C10_Witness ==
    /\ Len(data.user_id) = 2
    /\ Len(data.retweet_og_favorite_count) = 2
    /\ data.user_id[1] # data.user_id[2]

====
